---- MODULE Spec2Model ----
(***************************************************************************)
(* A model of pylasdev: the LAS header parser (parser.py), the 1.2/2.0     *)
(* ASCII data reader (data_reader.py), the document model (models.py),     *)
(* the reader entry point (reader.py) and the writer (writer.py).          *)
(*                                                                         *)
(* Representation.                                                         *)
(*  - A piece of text that the code may hand to float() is a record       *)
(*    [s, num, v]: s is its spelling, num says whether float() accepts     *)
(*    it, v is its value in units of 10^-5 (so 1.0 is 100000).             *)
(*  - A mnemonic is a record [base, sfx]: the string base followed by      *)
(*    "_k" for every k of sfx, so f"{name}_{k}" appends k to sfx.          *)
(*  - A Python dict is a sequence of [key, val] entries in insertion      *)
(*    order.  A numpy array is a sequence (index i of the code is          *)
(*    index i+1 here).                                                     *)
(*  - A file is a sequence of lines; a line is a record whose field k      *)
(*    is "sec" (first non-space character is '~'), "hdr" (a line the       *)
(*    header patterns match), "junk" (a content line they do not           *)
(*    match), "row" (a data row), "comment" or "blank".                    *)
(***************************************************************************)
EXTENDS Integers, Sequences, FiniteSets, TLC

VARIABLES
    pc,        \* "start" | "sized" | "decoded" | "read" | "read_dict" | "as_dict" |
               \* "restored" | "failed" | "written" | "write_failed" | "reread"
    file,      \* the lines of the file on disk
    din,       \* the document handed to write_las_file, or what doc was
               \* converted to (NoDoc if none)
    doc,       \* the document returned by the last read (NoDoc if none)
    err,       \* the exception the last call raised, or "none"
    warnings,  \* the diagnostics of the last read, in order
    run,       \* what the last read did inside (algorithm, counts, lists)
    parsers,   \* the fields of each LASParser instance; las_file is a reference
    heap,      \* the LASFile objects, by reference
    calls,     \* the parse calls under way on the instances
    max_file_size, \* the max_file_size argument of the read (NoLimit if None)
    steps,     \* what the read has done to the file so far, in order
    mnem_dict  \* the mnem_base argument of the read (<<>> if None)

vars == <<pc, file, din, doc, err, warnings, run, parsers, heap, calls,
          max_file_size, steps, mnem_dict>>

\* the state of a file read or write
iovars == <<pc, file, din, doc, err, warnings, run>>

\* the state of the parser objects
objvars == <<parsers, heap, calls>>

\* the arguments of a read and its file access
fsvars == <<max_file_size, steps, mnem_dict>>

\* ------------------------------------------------------------------ texts

Txt(s) == [s |-> s, num |-> FALSE, v |-> 0]

Num(n) == [s |-> "#", num |-> TRUE, v |-> n]

\* a number with a spelling the code looks at ("2.0", "3.0")
NumS(s, n) == [s |-> s, num |-> TRUE, v |-> n]

\* str.upper() on the spellings the model uses
UpperStr(s) ==
    CASE s = "yes" -> "YES" [] s = "no" -> "NO" [] s = "gr" -> "GR"
      [] s = "dept" -> "DEPT" [] s = "null" -> "NULL"
      [] s = "gamma" -> "GAMMA" [] OTHER -> s

Upper(t) == [t EXCEPT !.s = UpperStr(@)]

\* the default of well.get("NULL", "-999.25"), in units of 10^-5
DefaultNullV == -99925000

DefaultNull == Num(DefaultNullV)

Name(b) == [base |-> b, sfx |-> <<>>]

UpperName(n) == [n EXCEPT !.base = UpperStr(@)]

\* f"{name}_{k}"
Suffixed(name, k) == [name EXCEPT !.sfx = Append(@, k)]

\* ------------------------------------------------------------------ dicts

RECURSIVE DictFind(_, _, _)
DictFind(d, key, i) ==
    IF i > Len(d) THEN 0
    ELSE IF d[i].key = key THEN i ELSE DictFind(d, key, i + 1)

DictHas(d, key) == DictFind(d, key, 1) > 0

DictGet(d, key) == d[DictFind(d, key, 1)].val

DictGetOr(d, key, default) == IF DictHas(d, key) THEN DictGet(d, key) ELSE default

\* d[key] = val: an existing key keeps its place, a new key goes last
DictSet(d, key, val) ==
    IF DictHas(d, key)
    THEN [d EXCEPT ![DictFind(d, key, 1)].val = val]
    ELSE Append(d, [key |-> key, val |-> val])

DictKeys(d) == [i \in 1..Len(d) |-> d[i].key]

Range(s) == {s[i] : i \in 1..Len(s)}

RECURSIVE Repeat(_, _)
Repeat(x, n) == IF n <= 0 THEN <<>> ELSE <<x>> \o Repeat(x, n - 1)

Min(a, b) == IF a < b THEN a ELSE b

\* ------------------------------------------------------------------ lines

\* the text after the section letter: txt, followed by the digits of idx
\* when idx >= 0 (so "Section_0" is SName("Section_", 0))
SName(txt, idx) == [txt |-> txt, idx |-> idx]

NoSName == SName("", -1)

SecLine(ind, ch, name, ntok) ==
    [k |-> "sec", ind |-> ind, ch |-> ch, name |-> name, ntok |-> ntok]

\* str.strip of the text after the section letter
strip(name) ==
    CASE name.txt = " LOG" -> [name EXCEPT !.txt = "LOG"]
      [] name.txt = " " -> [name EXCEPT !.txt = ""]
      [] OTHER -> name

\* a line DATA_LINE_PATTERN matches: mnemonic, unit, value and, after the
\* colon, a description that may carry a format tag {fmt} or {fmt:offset}
HdrLine(mnem, unit, value, desc, fmt) ==
    [k |-> "hdr", mnem |-> mnem, unit |-> unit, value |-> value, desc |-> desc,
     fmt |-> fmt, offset |-> Txt("")]

\* a header line whose description carries the tag {fmt:offset}; the
\* offset is any text of digits and dots (FORMAT_SPEC_PATTERN)
TaggedLine(mnem, fmt, offset) ==
    [HdrLine(mnem, "", Txt(""), Txt(""), fmt) EXCEPT !.offset = offset]

JunkLine == [k |-> "junk"]

RowLine(toks, dlm) == [k |-> "row", toks |-> toks, dlm |-> dlm]

CommentLine == [k |-> "comment"]

BlankLine == [k |-> "blank"]

Letters == {"V", "W", "C", "P", "O", "A", "X", "v", "w", "c", "p", "o", "a", "x"}

UpperCh(ch) ==
    CASE ch = "v" -> "V" [] ch = "w" -> "W" [] ch = "c" -> "C" [] ch = "p" -> "P"
      [] ch = "o" -> "O" [] ch = "a" -> "A" [] ch = "x" -> "X" [] OTHER -> ch

\* SECTION_PATTERN.match(line): '~' in column 0 followed by a letter
SECTION_PATTERN(line) == line.k = "sec" /\ ~line.ind /\ line.ch \in Letters

COMMENT_PATTERN(line) == line.k = "comment"

EMPTY_PATTERN(line) == line.k = "blank"

\* line.strip().startswith("~")
StartsTilde(line) == line.k = "sec"

\* line.strip().startswith("~A")
StartsTildeA(line) == line.k = "sec" /\ line.ch = "A"

\* the text of a token made of several delimited fields: float() accepts
\* none ("1.0000,2.0000")
Joined == Txt("joined")

\* line.strip().split(): the whitespace-separated tokens of a content line
SplitWs(line) ==
    IF line.k = "row"
    THEN IF line.dlm \in {" ", "\t"} \/ Len(line.toks) <= 1
         THEN SelectSeq(line.toks, LAMBDA t : t.s # "")
         ELSE <<Joined>>
    ELSE IF line.k = "sec" THEN Repeat(Txt("~"), line.ntok)
    ELSE <<Txt("word"), Txt("word"), Txt("word")>>

\* line.split(delimiter) of the LAS 3.0 extraction, each field stripped
SplitBy(line, delimiter) ==
    IF delimiter = " " THEN SplitWs(line)
    ELSE IF line.k = "row"
         THEN IF line.dlm = delimiter \/ Len(line.toks) <= 1 THEN line.toks
              ELSE <<Joined>>
         ELSE <<Joined>>

\* ------------------------------------------------------------- documents

VersionSection(vers, wrap, dlm) == [vers |-> vers, wrap |-> wrap, dlm |-> dlm]

\* VersionSection.is_las30: vers.startswith("3")
\* (the version texts of the inputs that start with "3")
is_las30(version) == version.vers.s \in {"3.0", "3", "3.5", "3X"}

\* VersionSection.delimiter_char
delimiter_char(version) ==
    LET u == UpperStr(version.dlm.s)
    IN  CASE u = "SPACE" -> " " [] u = "TAB" -> "\t" [] u = "COMMA" -> ","
          [] OTHER -> " "

CurveDefinition(mnemonic, unit, api_code, description, original_mnemonic, data_format) ==
    [mnemonic |-> mnemonic, unit |-> unit, api_code |-> api_code,
     description |-> description, original_mnemonic |-> original_mnemonic,
     data_format |-> data_format]

NoName == Name("")

DataSection(name, curves_order, data) ==
    [name |-> name, curves_order |-> curves_order, data |-> data]

\* LASFile(): the defaults of the dataclass
LASFile ==
    [version |-> VersionSection(NumS("2.0", 200000), Txt("NO"), Txt("SPACE")),
     well |-> <<>>, curves |-> <<>>, parameters |-> <<>>, other |-> <<>>,
     logs |-> <<>>, curves_order |-> <<>>, data_sections |-> <<>>,
     string_data |-> <<>>]

NoDoc == [none |-> TRUE]

\* ---------------------------------------------------------------- parser

\* LASParser._reset
ParserReset ==
    [las_file |-> LASFile, current_section |-> "", current_section_name |-> NoSName,
     wrap_mode |-> FALSE, data_line_count |-> 0, ascii_data_lines |-> <<>>,
     current_data_section_idx |-> 0, error |-> "none"]

\* LASParser._pre_scan: the number of non-comment, non-blank lines in A sections
RECURSIVE PreScanFrom(_, _, _, _)
PreScanFrom(lines, i, in_ascii, count) ==
    IF i > Len(lines) THEN count
    ELSE IF SECTION_PATTERN(lines[i])
         THEN PreScanFrom(lines, i + 1, UpperCh(lines[i].ch) = "A", count)
         ELSE IF in_ascii /\ ~COMMENT_PATTERN(lines[i]) /\ ~EMPTY_PATTERN(lines[i])
              THEN PreScanFrom(lines, i + 1, in_ascii, count + 1)
              ELSE PreScanFrom(lines, i + 1, in_ascii, count)

pre_scan(lines) == PreScanFrom(lines, 1, FALSE, 0)

\* LASParser._match_data_line: DATA_LINE_PATTERN, then VALUE_ONLY_PATTERN
match_data_line(line) == line.k = "hdr"

\* LASParser._parse_version
parse_version(ps, line) ==
    IF ~match_data_line(line) THEN ps
    ELSE LET mnemonic == UpperName(line.mnem)
             value == line.value
         IN  IF mnemonic = Name("VERS")
             THEN [ps EXCEPT !.las_file.version.vers = value]
             ELSE IF mnemonic = Name("WRAP")
             THEN [ps EXCEPT !.las_file.version.wrap = Upper(value),
                             !.wrap_mode = (Upper(value).s = "YES")]
             ELSE IF mnemonic = Name("DLM")
             THEN [ps EXCEPT !.las_file.version.dlm = value]
             ELSE ps

\* LASParser._parse_well
parse_well(ps, line) ==
    IF ~match_data_line(line) THEN ps
    ELSE [ps EXCEPT !.las_file.well = DictSet(@, UpperName(line.mnem), line.value)]

\* LASParser.__init__ (parser.py 94): the keys of mnem_base in upper case
RECURSIVE MnemBaseUpper(_, _)
MnemBaseUpper(mnem_base, i) ==
    IF i = 0 THEN <<>>
    ELSE DictSet(MnemBaseUpper(mnem_base, i - 1),
                 UpperName(mnem_base[i].key), mnem_base[i].val)

mnem_base_upper(mnem_base) == MnemBaseUpper(mnem_base, Len(mnem_base))

\* LASParser._parse_curve, with mnem_base the normalization dictionary;
\* float(offset) of a tag {A:offset} raises on an offset that is no number
\* (parser.py 223-225)
parse_curve(ps, line, mnem_base) ==
    IF ~match_data_line(line) THEN ps
    ELSE LET raw_mnemonic == UpperName(line.mnem)
             normalized == DictGetOr(mnem_base_upper(mnem_base), raw_mnemonic,
                                     raw_mnemonic)
             curve == CurveDefinition(normalized, line.unit, line.value, line.desc,
                                      IF raw_mnemonic # normalized THEN raw_mnemonic
                                      ELSE NoName,
                                      line.fmt)
         IN  IF line.fmt = "A" /\ line.offset.s # "" /\ ~line.offset.num
             THEN [ps EXCEPT !.error = "ValueError"]
             ELSE [ps EXCEPT !.las_file.curves = Append(@, curve),
                             !.las_file.curves_order = Append(@, normalized)]

\* LASParser._parse_parameter
parse_parameter(ps, line) ==
    IF ~match_data_line(line) THEN ps
    ELSE [ps EXCEPT !.las_file.parameters =
              Append(@, [mnemonic |-> UpperName(line.mnem), unit |-> line.unit,
                         value |-> line.value, description |-> line.desc])]

\* LASParser._parse_other
parse_other(ps, line) == [ps EXCEPT !.las_file.other = Append(@, line)]

\* LASParser._parse_ascii_data
parse_ascii_data(ps, line) == [ps EXCEPT !.ascii_data_lines = Append(@, line)]

\* float(text) with a fallback for the texts float() rejects
FloatOr(t, fallback) == IF t.num THEN t.v ELSE fallback

\* one field of one row in the LAS 3.0 extraction (parser.py 360-375):
\* a missing field is str(null_value), an empty numeric field is null_value
ExtractCell(values, i, is_string, null_v) ==
    LET val_str == IF i <= Len(values) THEN values[i] ELSE Num(null_v)
    IN  IF is_string THEN val_str
        ELSE IF val_str.s = "" THEN null_v ELSE FloatOr(val_str, null_v)

ExtractColumn(rows, delimiter, i, is_string, null_v) ==
    [r \in 1..Len(rows) |->
        ExtractCell(SplitBy(rows[r], delimiter), i, is_string, null_v)]

SectionName(ps) ==
    IF ps.current_section_name # NoSName THEN ps.current_section_name
    ELSE SName("Section_", ps.current_data_section_idx)

RECURSIVE StoreColumns(_, _, _, _, _, _)
StoreColumns(las, ds, curves, rows, i, null_v) ==
    IF i > Len(curves) THEN [las |-> las, ds |-> ds]
    ELSE LET c == curves[i]
             is_string == c.data_format = "S"
             col == ExtractColumn(rows, delimiter_char(las.version), i, is_string, null_v)
         IN  IF is_string
             THEN StoreColumns(
                    [las EXCEPT !.string_data = DictSet(@, c.mnemonic, col)],
                    [ds EXCEPT !.data = DictSet(@, c.mnemonic, Repeat(0, Len(col)))],
                    curves, rows, i + 1, null_v)
             ELSE StoreColumns(
                    [las EXCEPT !.logs = DictSet(@, c.mnemonic, col)],
                    [ds EXCEPT !.data = DictSet(@, c.mnemonic, col)],
                    curves, rows, i + 1, null_v)

\* self.las_file.data_sections.append(data_section) (parser.py 390)
AppendSection(st) == [st.las EXCEPT !.data_sections = Append(@, st.ds)]

\* LASParser._process_ascii_data
process_ascii_data(ps) ==
    LET las == ps.las_file
        curves == las.curves
        null_text == DictGetOr(las.well, Name("NULL"), DefaultNull)
        rows == SelectSeq(ps.ascii_data_lines, LAMBDA l : ~COMMENT_PATTERN(l))
        ds0 == DataSection(SectionName(ps),
                           [i \in 1..Len(curves) |-> curves[i].mnemonic], <<>>)
    IN  IF ps.ascii_data_lines = <<>> \/ curves = <<>> THEN ps
        ELSE IF ~null_text.num THEN [ps EXCEPT !.error = "ValueError"]
        ELSE [ps EXCEPT !.las_file =
                 AppendSection(StoreColumns(las, ds0, curves, rows, 1, null_text.v))]

\* the flush of a finished ~A block when another ~A line follows it
\* (parser.py 146-150)
FlushSection(ps) ==
    [process_ascii_data(ps) EXCEPT !.ascii_data_lines = <<>>,
                                   !.current_data_section_idx = @ + 1]

\* the section switch of _parse_line (parser.py 151-152); an exception of
\* the flush ends the parse
EnterSection(ps, flushed, line) ==
    IF flushed.error # "none" THEN [ps EXCEPT !.error = flushed.error]
    ELSE [flushed EXCEPT !.current_section = UpperCh(line.ch),
                         !.current_section_name = strip(line.name)]

\* LASParser._parse_line
\* fault: a section without a handler treated as free text
no_handler_as_other(ps, line) == parse_other(ps, line)

\* SECTION_HANDLERS.get gives None for a letter outside V, W, C, P, O, A
\* (and no section is current before the first section line): the line
\* is dropped (parser.py 158-161)
no_handler(ps, line) == ps

parse_line(ps, line, mnem_base) ==
    IF ps.error # "none" THEN ps
    ELSE IF SECTION_PATTERN(line)
    THEN EnterSection(ps,
                      IF UpperCh(line.ch) = "A" /\ ps.current_section = "A"
                      THEN FlushSection(ps) ELSE ps,
                      line)
    ELSE IF COMMENT_PATTERN(line) \/ EMPTY_PATTERN(line) THEN ps
    ELSE CASE ps.current_section = "V" -> parse_version(ps, line)
           [] ps.current_section = "W" -> parse_well(ps, line)
           [] ps.current_section = "C" -> parse_curve(ps, line, mnem_base)
           [] ps.current_section = "P" -> parse_parameter(ps, line)
           [] ps.current_section = "O" -> parse_other(ps, line)
           [] ps.current_section = "A" -> parse_ascii_data(ps, line)
           [] OTHER -> no_handler(ps, line)

RECURSIVE ParseLines(_, _, _, _)
ParseLines(ps, lines, i, mnem_base) ==
    IF i > Len(lines) THEN ps
    ELSE ParseLines(parse_line(ps, lines[i], mnem_base), lines, i + 1, mnem_base)

\* the end of LASParser.parse (parser.py 120-122): LAS 3.0 data is extracted
ParseEnd(ps) ==
    IF ps.error = "none" /\ is_las30(ps.las_file.version)
    THEN process_ascii_data(ps)
    ELSE ps

\* LASParser.parse
parse(content, mnem_base) ==
    ParseEnd(ParseLines([ParserReset EXCEPT !.data_line_count = pre_scan(content)],
                        content, 1, mnem_base))

\* ----------------------------------------------------------- data reader

\* _detect_actual_wrap: TRUE when the first line after a "~A" line that is
\* neither blank nor a comment has fewer tokens than there are curves
RECURSIVE DetectFrom(_, _, _, _)
DetectFrom(lines, i, in_ascii, curve_count) ==
    IF i > Len(lines) THEN TRUE
    ELSE IF StartsTildeA(lines[i]) THEN DetectFrom(lines, i + 1, TRUE, curve_count)
    ELSE IF ~in_ascii \/ EMPTY_PATTERN(lines[i]) \/ COMMENT_PATTERN(lines[i])
         THEN DetectFrom(lines, i + 1, in_ascii, curve_count)
         ELSE Len(SplitWs(lines[i])) < curve_count

\* fault: the header's WRAP flag trusted as it stands
detect_trusting_header(lines, curve_count) == TRUE

detect_actual_wrap(lines, curve_count) == DetectFrom(lines, 1, FALSE, curve_count)

DupWarning(name, new_name) == [kind |-> "duplicate", name |-> name, new_name |-> new_name]

\* one iteration of the loop of _deduplicate_curves (data_reader.py 83-100)
DedupStep(st, idx, name) ==
    IF DictHas(st.seen, name)
    THEN LET n == DictGet(st.seen, name) + 1
             new_name == Suffixed(name, n)
         IN  [seen |-> DictSet(st.seen, name, n),
              new_order |-> Append(st.new_order, new_name),
              warns |-> Append(st.warns, DupWarning(name, new_name)),
              curves |->
                 IF idx <= Len(st.curves)
                 THEN [st.curves EXCEPT
                         ![idx].original_mnemonic = IF @ = NoName THEN name ELSE @,
                         ![idx].mnemonic = new_name]
                 ELSE st.curves]
    ELSE [st EXCEPT !.seen = DictSet(@, name, 1),
                    !.new_order = Append(@, name)]

RECURSIVE DedupLoop(_, _, _)
DedupLoop(st, order, idx) ==
    IF idx > Len(order) THEN st
    ELSE DedupLoop(DedupStep(st, idx, order[idx]), order, idx + 1)

\* _deduplicate_curves: the document after the repair, and its diagnostics
DeduplicatedOrderOnly(las, st) ==
    [las |-> [las EXCEPT !.curves_order = st.new_order], warns |-> st.warns]

Deduplicated(las, st) ==
    [las |-> [las EXCEPT !.curves = st.curves, !.curves_order = st.new_order],
     warns |-> st.warns]

deduplicate_curves(las) ==
    Deduplicated(las, DedupLoop([seen |-> <<>>, new_order |-> <<>>, warns |-> <<>>,
                                 curves |-> las.curves], las.curves_order, 1))

\* the value _read_normal stores for curve position i of a row (138-148)
NormalCell(values, i, null_v) ==
    IF i <= Len(values) THEN FloatOr(values[i], null_v) ELSE null_v

\* logs[name][index] = value, for index counted from 1
SetAt(logs, name, index, value) ==
    DictSet(logs, name, [DictGet(logs, name) EXCEPT ![index] = value])

RECURSIVE NormalRow(_, _, _, _, _, _)
NormalRow(logs, order, values, i, row, null_v) ==
    IF i > Len(order) THEN logs
    ELSE NormalRow(SetAt(logs, order[i], row, NormalCell(values, i, null_v)),
                   order, values, i + 1, row, null_v)

\* one iteration of the loop of _read_normal (124-150)
NormalLine(st, line, order, data_line_count, null_v) ==
    IF st.done \/ st.error # "none" THEN st
    ELSE IF StartsTilde(line)
    THEN IF StartsTildeA(line) THEN [st EXCEPT !.in_ascii = TRUE]
         ELSE IF st.in_ascii THEN [st EXCEPT !.done = TRUE] ELSE st
    ELSE IF ~st.in_ascii \/ EMPTY_PATTERN(line) \/ COMMENT_PATTERN(line) THEN st
    ELSE IF st.current_line >= data_line_count
         THEN [st EXCEPT !.error = "IndexError"]
         ELSE [st EXCEPT
                 !.logs = NormalRow(@, order, SplitWs(line), 1,
                                    st.current_line + 1, null_v),
                 !.current_line = @ + 1]

RECURSIVE NormalLoop(_, _, _, _, _, _)
NormalLoop(st, lines, i, order, data_line_count, null_v) ==
    IF i > Len(lines) THEN st
    ELSE NormalLoop(NormalLine(st, lines[i], order, data_line_count, null_v),
                    lines, i + 1, order, data_line_count, null_v)

RECURSIVE Allocate(_, _, _, _)
Allocate(logs, order, i, n) ==
    IF i > Len(order) THEN logs
    ELSE Allocate(DictSet(logs, order[i], Repeat(0, n)), order, i + 1, n)

NoRun == [algorithm |-> "none"]

\* what _read_normal leaves: float(NULL) raises before the loop (122)
NormalResult(d, null_text, st, data_line_count) ==
    IF ~null_text.num
    THEN [las |-> d.las, warns |-> d.warns, error |-> "ValueError", run |-> NoRun]
    ELSE [las |-> [d.las EXCEPT !.logs = st.logs], warns |-> d.warns,
          error |-> st.error,
          run |-> [algorithm |-> "normal", rows |-> st.current_line,
                   data_line_count |-> data_line_count]]

\* _read_normal after the repair of duplicate names (116-150)
ReadNormalRows(lines, d, null_text, data_line_count) ==
    NormalResult(d, null_text,
                 NormalLoop([in_ascii |-> FALSE, current_line |-> 0,
                             logs |-> Allocate(d.las.logs, d.las.curves_order, 1,
                                               data_line_count),
                             done |-> FALSE, error |-> "none"],
                            lines, 1, d.las.curves_order, data_line_count,
                            null_text.v),
                 data_line_count)

NullText(las) == DictGetOr(las.well, Name("NULL"), DefaultNull)

ReadNormalFrom(lines, d, data_line_count) ==
    ReadNormalRows(lines, d, NullText(d.las), data_line_count)

\* _read_normal
read_normal(lines, las0, data_line_count) ==
    ReadNormalFrom(lines, deduplicate_curves(las0), data_line_count)

DepthWarning(n) == [kind |-> "depth_extra", count |-> n]

PadWarning(i, have, want) == [kind |-> "pad", curve |-> i, have |-> have, want |-> want]

\* one value token of a wrapped value row (data_reader.py 212-223); lists are
\* indexed from 1, so data_lists[counter] of the code is lists[counter + 1]
WrappedToken(st, val_str, curve_count, null_v) ==
    LET counter == st.counter + 1
        lists == IF counter < curve_count
                 THEN [st.data_lists EXCEPT ![counter + 1] =
                          Append(@, FloatOr(val_str, null_v))]
                 ELSE st.data_lists
    IN  IF counter >= curve_count - 1
        THEN [st EXCEPT !.data_lists = lists, !.counter = 0, !.depth_line = TRUE]
        ELSE [st EXCEPT !.data_lists = lists, !.counter = counter]

RECURSIVE WrappedTokens(_, _, _, _, _)
WrappedTokens(st, values, i, curve_count, null_v) ==
    IF i > Len(values) THEN st
    ELSE WrappedTokens(WrappedToken(st, values[i], curve_count, null_v),
                       values, i + 1, curve_count, null_v)

\* one iteration of the loop of _read_wrapped (180-223)
WrappedLine(st, line, curve_count, null_v) ==
    IF st.done THEN st
    ELSE IF StartsTilde(line)
    THEN IF StartsTildeA(line) THEN [st EXCEPT !.in_ascii = TRUE]
         ELSE IF st.in_ascii THEN [st EXCEPT !.done = TRUE] ELSE st
    ELSE IF ~st.in_ascii \/ EMPTY_PATTERN(line) \/ COMMENT_PATTERN(line) THEN st
    ELSE LET values == SplitWs(line)
         IN  IF st.depth_line
             THEN [st EXCEPT
                     !.warns = IF Len(values) > 1
                               THEN Append(@, DepthWarning(Len(values))) ELSE @,
                     !.data_lists[1] = Append(@, FloatOr(values[1], null_v)),
                     !.depth_line = FALSE,
                     !.counter = 0,
                     !.depths = @ + 1]
             ELSE WrappedTokens(st, values, 1, curve_count, null_v)

RECURSIVE WrappedLoop(_, _, _, _, _)
WrappedLoop(st, lines, i, curve_count, null_v) ==
    IF i > Len(lines) THEN st
    ELSE WrappedLoop(WrappedLine(st, lines[i], curve_count, null_v),
                     lines, i + 1, curve_count, null_v)

RECURSIVE MaxLen(_, _)
MaxLen(lists, i) ==
    IF i > Len(lists) THEN 0
    ELSE LET m == MaxLen(lists, i + 1)
         IN  IF Len(lists[i]) > m THEN Len(lists[i]) ELSE m

\* fault: the padding left out, every list stored as read
PadListsSkipped(lists, null_v) == lists

\* fault: short lists extended with the 0.0 of a fresh array
PadListsZero(lists, null_v) ==
    LET max_len == MaxLen(lists, 1)
    IN  [i \in 1..Len(lists) |-> lists[i] \o Repeat(0, max_len - Len(lists[i]))]

\* the padding of _read_wrapped (226-234)
PadLists(lists, null_v) ==
    LET max_len == MaxLen(lists, 1)
    IN  [i \in 1..Len(lists) |-> lists[i] \o Repeat(null_v, max_len - Len(lists[i]))]

PadWarnings(lists) ==
    LET max_len == MaxLen(lists, 1)
        short == SelectSeq([i \in 1..Len(lists) |-> i],
                           LAMBDA i : Len(lists[i]) < max_len)
    IN  [j \in 1..Len(short) |-> PadWarning(short[j], Len(lists[short[j]]), max_len)]

RECURSIVE StoreLists(_, _, _, _)
StoreLists(logs, order, lists, i) ==
    IF i > Len(order) THEN logs
    ELSE StoreLists(DictSet(logs, order[i], lists[i]), order, lists, i + 1)

\* what _read_wrapped leaves: float(NULL) raises before the loop (178)
WrappedResult(d, null_text, st, padded) ==
    IF ~null_text.num
    THEN [las |-> d.las, warns |-> d.warns, error |-> "ValueError", run |-> NoRun]
    ELSE [las |-> [d.las EXCEPT !.logs = StoreLists(@, d.las.curves_order, padded, 1)],
          warns |-> d.warns \o st.warns \o PadWarnings(st.data_lists),
          error |-> "none",
          run |-> [algorithm |-> "wrapped", depths |-> st.depths,
                   depth_line |-> st.depth_line, counter |-> st.counter,
                   read_lists |-> st.data_lists, data_lists |-> padded]]

\* the end of _read_wrapped (225-238): padding, then the arrays
WrappedEnd(d, null_text, st) ==
    WrappedResult(d, null_text, st, PadLists(st.data_lists, null_text.v))

\* _read_wrapped after the repair of duplicate names (175-238)
ReadWrappedRows(lines, d, null_text) ==
    WrappedEnd(d, null_text,
               WrappedLoop([in_ascii |-> FALSE, depth_line |-> TRUE, counter |-> 0,
                            data_lists |-> [i \in 1..Len(d.las.curves_order) |-> <<>>],
                            warns |-> <<>>, done |-> FALSE, depths |-> 0],
                           lines, 1, Len(d.las.curves_order), null_text.v))

ReadWrappedFrom(lines, d) == ReadWrappedRows(lines, d, NullText(d.las))

\* _read_wrapped
read_wrapped(lines, las0) == ReadWrappedFrom(lines, deduplicate_curves(las0))

\* read_ascii_data
read_ascii_data(content, las, data_line_count) ==
    IF Len(las.curves_order) = 0
    THEN [las |-> las, warns |-> <<>>, error |-> "none", run |-> NoRun]
    ELSE IF Upper(las.version.wrap).s = "YES"
            /\ detect_actual_wrap(content, Len(las.curves_order))
         THEN read_wrapped(content, las)
         ELSE read_normal(content, las, data_line_count)

\* ---------------------------------------------------------------- reader

VersionWarning == [kind |-> "unsupported_version"]

\* the version check of the reader (reader.py 138-149)
NoVersionWarnings(las) == <<>>

\* reader.py 72-84 and 139-151: float(vers) > 3.0 warns, ValueError passes
VersionWarnings(las) ==
    IF las.version.vers.num /\ las.version.vers.v > 300000
    THEN <<VersionWarning>> ELSE <<>>

\* what the reader returns once the data is read; an exception of
\* read_ascii_data leaves no document
ReadResult(vwarn, rd) ==
    IF rd.error # "none"
    THEN [las |-> NoDoc, warns |-> vwarn \o rd.warns, error |-> rd.error,
          run |-> rd.run]
    ELSE [las |-> rd.las, warns |-> vwarn \o rd.warns, error |-> "none",
          run |-> rd.run]

\* the reader after LASParser.parse (reader.py 132-157): LAS 3.0 data was
\* extracted by the parser, 1.2/2.0 data is read by read_ascii_data
ReadParsed(content, ps) ==
    IF ps.error # "none"
    THEN [las |-> NoDoc, warns |-> <<>>, error |-> ps.error, run |-> NoRun]
    ELSE IF is_las30(ps.las_file.version)
    THEN [las |-> ps.las_file, warns |-> VersionWarnings(ps.las_file),
          error |-> "none", run |-> NoRun]
    ELSE ReadResult(VersionWarnings(ps.las_file),
                    read_ascii_data(content, ps.las_file, ps.data_line_count))

\* read_las_file_as_object after read_with_encoding has produced content;
\* read_las_file returns to_dict of the same document
read_las_file_as_object(content, mnem_base) ==
    ReadParsed(content, parse(content, mnem_base))

\* LASFile.to_dict
to_dict(las) ==
    [version |-> [VERS |-> las.version.vers, WRAP |-> las.version.wrap,
                  DLM |-> las.version.dlm],
     well |-> las.well,
     parameters |-> LET P[i \in 0..Len(las.parameters)] ==
                            IF i = 0 THEN <<>>
                            ELSE DictSet(P[i - 1], las.parameters[i].mnemonic,
                                         las.parameters[i].value)
                    IN  P[Len(las.parameters)],
     logs |-> las.logs,
     curves_order |-> las.curves_order]

\* LASFile.from_dict
from_dict(data) ==
    [LASFile EXCEPT
        !.version = VersionSection(data.version.VERS, data.version.WRAP,
                                   data.version.DLM),
        !.well = data.well,
        !.curves_order = data.curves_order,
        !.curves = [i \in 1..Len(data.curves_order) |->
                      CurveDefinition(data.curves_order[i], "", Txt(""), Txt(""),
                                      NoName, "")],
        !.parameters = [i \in 1..Len(data.parameters) |->
                          [mnemonic |-> data.parameters[i].key, unit |-> "",
                           value |-> data.parameters[i].val,
                           description |-> Txt("")]],
        !.logs = data.logs]

\* ---------------------------------------------------------------- writer

\* f"{x:.4f}": x (in units of 10^-5) rounded to a multiple of 10, a tie to
\* the even neighbour
Round4(x) ==
    LET q == x \div 10
        r == x % 10
    IN  IF r < 5 THEN 10 * q
        ELSE IF r > 5 THEN 10 * (q + 1)
        ELSE IF q % 2 = 0 THEN 10 * q ELSE 10 * (q + 1)

Format4(x) == Num(Round4(x))

\* one field of a data row (writer.py 137-143 and 156-162)
WriteField(las, data, name, i, null_v) ==
    IF DictHas(las.string_data, name) /\ i <= Len(DictGet(las.string_data, name))
    THEN DictGet(las.string_data, name)[i]
    ELSE IF DictHas(data, name) /\ i <= Len(DictGet(data, name))
    THEN Format4(DictGet(data, name)[i])
    ELSE Format4(null_v)

\* the rows of one data section (writer.py 135-144 and 154-163)
WriteRows(las, data, curve_names, null_v) ==
    LET num_rows == Len(DictGet(data, curve_names[1]))
    IN  [i \in 1..num_rows |->
            RowLine([j \in 1..Len(curve_names) |->
                        WriteField(las, data, curve_names[j], i, null_v)],
                    delimiter_char(las.version))]

HasRows(data, curve_names) == curve_names # <<>> /\ DictHas(data, curve_names[1])

\* fault: the document's own wrap flag copied to the output
WriteVersionKeepingWrap(las) ==
    <<SecLine(FALSE, "V", SName("ERSION INFORMATION", -1), 2),
      HdrLine(Name("VERS"), "", las.version.vers, Txt("CWLS"), ""),
      HdrLine(Name("WRAP"), "", las.version.wrap, Txt("ONE LINE PER DEPTH STEP"), "")>>
    \o (IF is_las30(las.version)
        THEN <<HdrLine(Name("DLM"), "", las.version.dlm, Txt("DELIMITING"), "")>>
        ELSE <<>>)
    \o <<BlankLine>>

\* the ~V section of _generate_las_content (writer.py 61-73)
WriteVersion(las) ==
    <<SecLine(FALSE, "V", SName("ERSION INFORMATION", -1), 2),
      HdrLine(Name("VERS"), "", las.version.vers, Txt("CWLS"), ""),
      HdrLine(Name("WRAP"), "", Txt("NO"), Txt("ONE LINE PER DEPTH STEP"), "")>>
    \o (IF is_las30(las.version)
        THEN <<HdrLine(Name("DLM"), "", las.version.dlm, Txt("DELIMITING"), "")>>
        ELSE <<>>)
    \o <<BlankLine>>

WriteWell(las) ==
    <<SecLine(FALSE, "W", SName("ELL INFORMATION", -1), 2)>>
    \o [i \in 1..Len(las.well) |->
           HdrLine(las.well[i].key, "", las.well[i].val, Txt(""), "")]
    \o <<BlankLine>>

WriteCurves(las) ==
    <<SecLine(FALSE, "C", SName("URVE INFORMATION", -1), 2)>>
    \o [i \in 1..Len(las.curves) |->
           LET c == las.curves[i]
           IN  HdrLine(c.mnemonic, c.unit, c.api_code, c.description,
                       IF is_las30(las.version) THEN c.data_format ELSE "")]
    \o <<BlankLine>>

WriteParameters(las) ==
    IF las.parameters = <<>> THEN <<>>
    ELSE <<SecLine(FALSE, "P", SName("ARAMETER INFORMATION", -1), 2)>>
         \o [i \in 1..Len(las.parameters) |->
                LET q == las.parameters[i]
                IN  HdrLine(q.mnemonic, q.unit, q.value, q.description, "")]
         \o <<BlankLine>>

WriteOther(las) ==
    IF las.other = <<>> THEN <<>>
    ELSE <<SecLine(FALSE, "O", SName("THER", -1), 1)>> \o las.other \o <<BlankLine>>

RECURSIVE WriteSections(_, _, _)
WriteSections(las, i, null_v) ==
    IF i > Len(las.data_sections) THEN <<>>
    ELSE LET section == las.data_sections[i]
         IN  <<SecLine(FALSE, "A", section.name,
                       IF section.name = NoSName THEN 1 ELSE 2)>>
             \o (IF HasRows(section.data, section.curves_order)
                 THEN WriteRows(las, section.data, section.curves_order, null_v)
                 ELSE <<>>)
             \o WriteSections(las, i + 1, null_v)

\* whether _generate_las_content evaluates float(NULL) (lines 132 and 151)
NeedsNull(las) ==
    IF las.data_sections # <<>>
    THEN \E i \in 1..Len(las.data_sections) :
            HasRows(las.data_sections[i].data, las.data_sections[i].curves_order)
    ELSE HasRows(las.logs, las.curves_order)

\* _generate_las_content: the lines written, or the exception raised
generate_las_content(las) ==
    LET null_text == DictGetOr(las.well, Name("NULL"), DefaultNull)
        head == WriteVersion(las) \o WriteWell(las) \o WriteCurves(las)
                \o WriteParameters(las) \o WriteOther(las)
        data == IF las.data_sections # <<>>
                THEN WriteSections(las, 1, null_text.v)
                ELSE IF HasRows(las.logs, las.curves_order)
                THEN <<SecLine(FALSE, "A", SName("names", -1),
                               1 + Len(las.curves_order))>>
                     \o WriteRows(las, las.logs, las.curves_order, null_text.v)
                ELSE <<>>
    IN  IF NeedsNull(las) /\ ~null_text.num
        THEN [lines |-> <<>>, error |-> "ValueError"]
        ELSE [lines |-> head \o data, error |-> "none"]

\* ------------------------------------------------------------ input spaces

\* the most data-section lines after the first "~A" line of an input file
MaxBody == 3

\* the most data-section lines of the files with a doubtful NULL entry
MaxNullBody == 2

\* the most rows of a document handed to the writer
MaxRows == 2

SeqsUpTo(S, n) == UNION {[1..m -> S] : m \in 0..n}

DEPT == Name("DEPT")

GR == Name("GR")

GR_2 == Suffixed(GR, 2)

\* declared curve lists: one to three curves, distinct names, repeats, and
\* a declared GR_2 next to repeats of GR
CurveLists ==
    {<<DEPT>>, <<DEPT, GR>>, <<DEPT, GR, GR>>, <<GR, GR, GR>>, <<GR, GR, GR_2>>,
     <<GR_2, GR, GR>>, <<GR, GR, DEPT>>}

Bad == Txt("x")

\* data rows of 1 to 3 tokens, one of them with a token float() rejects
Rows ==
    {RowLine(<<Num(10)>>, " "),
     RowLine(<<Num(21), Num(22)>>, " "),
     RowLine(<<Num(31), Bad, Num(33)>>, " ")}

BodyLines ==
    Rows \cup {CommentLine,
               SecLine(FALSE, "A", NoSName, 1),
               SecLine(FALSE, "O", SName("THER", -1), 1)}

V20 == NumS("2.0", 200000)

V30 == NumS("3.0", 300000)

HeaderLines(vers, wrap, nulls, curves) ==
    <<SecLine(FALSE, "V", SName("ERSION", -1), 1),
      HdrLine(Name("VERS"), "", vers, Txt(""), ""),
      HdrLine(Name("WRAP"), "", wrap, Txt(""), ""),
      SecLine(FALSE, "W", SName("ELL", -1), 1)>>
    \o [i \in 1..Len(nulls) |-> HdrLine(Name("NULL"), "", nulls[i], Txt(""), "")]
    \o <<SecLine(FALSE, "C", SName("URVE", -1), 1)>>
    \o [i \in 1..Len(curves) |-> HdrLine(curves[i], "", Txt(""), Txt(""), "")]
    \o <<SecLine(FALSE, "A", SName("SCII", -1), 1)>>

\* 1.2/2.0 files: a header with a numeric NULL entry or none, then up to
\* MaxBody lines
ReadFiles ==
    {HeaderLines(V20, wrap, nulls, curves) \o body :
        wrap \in {Txt("YES"), Txt("NO")},
        nulls \in {<<>>, <<Num(-100000)>>},
        curves \in CurveLists,
        body \in SeqsUpTo(BodyLines, MaxBody)}

\* files of every dialect whose NULL entry is absent, numeric, a word or empty
NullFiles ==
    {HeaderLines(vers, wrap, nulls, curves) \o body :
        vers \in {V20, V30},
        wrap \in {Txt("YES"), Txt("NO")},
        nulls \in {<<>>, <<Num(-100000)>>, <<Txt("NONE")>>, <<Txt("")>>},
        curves \in {<<DEPT>>, <<DEPT, GR>>},
        body \in SeqsUpTo(BodyLines, MaxNullBody)}

\* documents handed to the writer as legacy dictionaries: every dialect,
\* wrap flag and delimiter kind, a NULL entry that is absent, numeric or a
\* word, one or two curves of up to MaxRows values each
CellValues == {123456, -12}

Columns(names) ==
    UNION {[1..Len(names) -> [1..n -> CellValues]] : n \in 0..MaxRows}

DictDoc(vers, wrap, dlm, nulls, names, cols) ==
    [kind |-> "dict",
     data |-> [version |-> [VERS |-> vers, WRAP |-> wrap, DLM |-> dlm],
               well |-> [i \in 1..Len(nulls) |->
                           [key |-> Name("NULL"), val |-> nulls[i]]],
               parameters |-> <<>>,
               logs |-> [i \in 1..Len(names) |-> [key |-> names[i], val |-> cols[i]]],
               curves_order |-> names]]

DictDocs ==
    UNION {{DictDoc(vers, wrap, dlm, nulls, names, cols) :
                vers \in {V20, V30},
                wrap \in {Txt("YES"), Txt("NO")},
                dlm \in {Txt("SPACE"), Txt("COMMA"), Txt("TAB")},
                nulls \in {<<>>, <<Num(-100000)>>, <<Txt("NONE")>>},
                cols \in Columns(names)} :
           names \in {<<DEPT>>, <<DEPT, GR>>}}

\* documents handed to the writer as objects: what reading a LAS 3.0 file
\* of one or two ~A blocks returns
V30Files ==
    {HeaderLines(V30, wrap, <<>>, <<DEPT, GR>>) \o body :
        wrap \in {Txt("YES"), Txt("NO")},
        body \in {<<RowLine(<<Num(21), Num(22)>>, " "),
                    RowLine(<<Num(31), Bad, Num(33)>>, " ")>>,
                  <<RowLine(<<Num(21), Num(22)>>, " "),
                    SecLine(FALSE, "A", NoSName, 1),
                    RowLine(<<Num(31), Bad, Num(33)>>, " ")>>}}

ObjectDocs ==
    {[kind |-> "object", las |-> read_las_file_as_object(f, <<>>).las] :
        f \in V30Files}

WriterDocs == DictDocs \cup ObjectDocs

\* the most lines of the header section of a header-only file
MaxHeader == 2

\* header lines: matched with and without tags, unmatched, and tags
\* {A:0.5} and {A:1.2.3}
HeaderBodyLines ==
    {HdrLine(GR, "M", Txt("27"), Txt("gamma"), ""),
     HdrLine(Name("WRAP"), "", Txt("YES"), Txt(""), "F"),
     JunkLine,
     TaggedLine(DEPT, "A", NumS("0.5", 50000)),
     TaggedLine(DEPT, "A", Txt("1.2.3"))}

\* files of one header section, Version, Well, Curve or Parameter
HeaderFiles ==
    {<<SecLine(FALSE, ch, NoSName, 1)>> \o body :
        ch \in {"V", "W", "C", "P"},
        body \in SeqsUpTo(HeaderBodyLines, MaxHeader)}

\* ------------------------------------------------------------ the program

Start(f, d) ==
    /\ pc = "start"
    /\ file = f
    /\ din = d
    /\ doc = NoDoc
    /\ err = "none"
    /\ warnings = <<>>
    /\ run = NoRun
    /\ parsers = <<>>
    /\ heap = <<>>
    /\ calls = <<>>
    /\ steps = <<>>

\* max_file_size = None, and max_file_size = n
NoLimit == [given |-> FALSE, bytes |-> 0]

Limit(n) == [given |-> TRUE, bytes |-> n]

\* file_path.stat().st_size, with one line of the file as the unit
st_size(f) == Len(f)

exceeds_or_reaches(file_size, limit) == file_size >= limit

\* encoding.py 66
exceeds(file_size, limit) == file_size > limit

SizeError == "ValueError: File size exceeds maximum allowed"

\* the caller's view of a read that returned r
Returned(r, done, document) ==
    /\ pc' = IF r.error = "none" THEN done ELSE "failed"
    /\ doc' = document
    /\ err' = r.error
    /\ warnings' = r.warns
    /\ run' = r.run

ReturnedObject(r) == Returned(r, "read", r.las)

\* the legacy mapping of a read that returned r
DictOf(r) == IF r.error = "none" THEN to_dict(r.las) ELSE NoDoc

ReturnedDict(r) == Returned(r, "reread", DictOf(r))

\* the caller's view of a write that produced out
Written(out) ==
    /\ pc' = IF out.error = "none" THEN "written" ELSE "write_failed"
    /\ file' = out.lines
    /\ err' = out.error

\* read_las_file_as_object on the file
ReadFile ==
    /\ pc = "start"
    /\ din = NoDoc
    /\ ReturnedObject(read_las_file_as_object(file, mnem_dict))
    /\ UNCHANGED <<file, din>>
    /\ UNCHANGED objvars
    /\ UNCHANGED fsvars

\* read_las_file on the file (reader.py 20-92)
ReadFileDict ==
    /\ pc = "start"
    /\ din = NoDoc
    /\ Returned(read_las_file_as_object(file, mnem_dict), "read_dict",
                DictOf(read_las_file_as_object(file, mnem_dict)))
    /\ UNCHANGED <<file, din>>
    /\ UNCHANGED objvars
    /\ UNCHANGED fsvars

\* LASFile.to_dict on the document read (models.py 244-256)
ToDict ==
    /\ pc = "read"
    /\ pc' = "as_dict"
    /\ din' = [kind |-> "dict", data |-> to_dict(doc)]
    /\ UNCHANGED <<file, doc, err, warnings, run>>
    /\ UNCHANGED objvars
    /\ UNCHANGED fsvars

\* LASFile.from_dict on the legacy mapping (models.py 258-292)
FromDict ==
    /\ pc = "as_dict"
    /\ pc' = "restored"
    /\ din' = [kind |-> "object", las |-> from_dict(din.data)]
    /\ UNCHANGED <<file, doc, err, warnings, run>>
    /\ UNCHANGED objvars
    /\ UNCHANGED fsvars

\* write_las_file (writer.py 19-46): a dictionary goes through from_dict
WriteFile ==
    /\ pc = "start"
    /\ din # NoDoc
    /\ Written(generate_las_content(IF din.kind = "dict" THEN from_dict(din.data)
                                     ELSE din.las))
    /\ UNCHANGED <<din, doc, warnings, run>>
    /\ UNCHANGED objvars
    /\ UNCHANGED fsvars

\* read_las_file (reader.py 20-92) on the file just written
ReadBack ==
    /\ pc = "written"
    /\ ReturnedDict(read_las_file_as_object(file, <<>>))
    /\ UNCHANGED <<file, din>>
    /\ UNCHANGED objvars
    /\ UNCHANGED fsvars

\* read_with_encoding, the size guard (encoding.py 64-70)
StatFile ==
    /\ pc = "start"
    /\ din = NoDoc
    /\ max_file_size.given
    /\ steps' = Append(steps, "stat")
    /\ IF exceeds(st_size(file), max_file_size.bytes)
       THEN pc' = "failed" /\ err' = SizeError
       ELSE pc' = "sized" /\ err' = err
    /\ UNCHANGED <<file, din, doc, warnings, run, max_file_size, mnem_dict>>
    /\ UNCHANGED objvars

\* read_with_encoding, after the guard (encoding.py 72-95): read_text
\* in the explicit encoding, or detect_encoding and then read_text
DecodeFile ==
    /\ din = NoDoc
    /\ \/ pc = "sized"
       \/ pc = "start" /\ ~max_file_size.given
    /\ \E explicit \in BOOLEAN :
          steps' = steps \o (IF explicit THEN <<"read_text">>
                             ELSE <<"detect_encoding", "read_text">>)
    /\ pc' = "decoded"
    /\ UNCHANGED <<file, din, doc, err, warnings, run, max_file_size, mnem_dict>>
    /\ UNCHANGED objvars

\* read_las_file_as_object from the parse on (reader.py 133-156)
ParseFile ==
    /\ pc = "decoded"
    /\ ReturnedObject(read_las_file_as_object(file, <<>>))
    /\ steps' = Append(steps, "parse")
    /\ UNCHANGED <<file, din, max_file_size, mnem_dict>>
    /\ UNCHANGED objvars

Init == \E f \in ReadFiles : Start(f, NoDoc) /\ max_file_size = NoLimit /\ mnem_dict = <<>>

Next == ReadFile

Spec == Init /\ [][Next]_vars

InitNull == \E f \in NullFiles : Start(f, NoDoc) /\ max_file_size = NoLimit /\ mnem_dict = <<>>

SpecNull == InitNull /\ [][Next]_vars

InitHeader == \E f \in HeaderFiles : Start(f, NoDoc) /\ max_file_size = NoLimit /\ mnem_dict = <<>>

SpecHeader == InitHeader /\ [][Next]_vars

\* the most lines after the ~A line of a file of the version family
MaxVersionBody == 2

V35 == NumS("3.5", 350000)

V40 == NumS("4.0", 400000)

VersionTexts == {V20, V30, V35, V40, Txt("TWO"), Txt("3X")}

VersionFiles ==
    {HeaderLines(vers, wrap, nulls, curves) \o body :
        vers \in VersionTexts,
        wrap \in {Txt("YES"), Txt("NO")},
        nulls \in {<<>>, <<Num(-100000)>>},
        curves \in {<<DEPT>>, <<DEPT, GR>>},
        body \in SeqsUpTo(BodyLines, MaxVersionBody)}

InitVersion ==
    \E f \in VersionFiles : Start(f, NoDoc) /\ max_file_size = NoLimit /\ mnem_dict = <<>>

NextVersion == ReadFile \/ ReadFileDict

SpecVersion == InitVersion /\ [][NextVersion]_vars

\* the most lines after the ~A line of a file read with a mnem_base
MaxNormBody == 2

GAMMA == Name("GAMMA")

NormCurveLists ==
    {<<DEPT, GR, GR>>, <<GR, GAMMA>>, <<GAMMA, GR>>, <<GAMMA, Name("gamma"), GR>>,
     <<GR, GR, GR_2>>, <<DEPT, GAMMA>>}

MnemBases ==
    {<<>>, <<[key |-> GAMMA, val |-> GR]>>, <<[key |-> Name("gamma"), val |-> GR]>>,
     <<[key |-> GR, val |-> DEPT], [key |-> Name("gr"), val |-> GAMMA]>>}

NormFiles ==
    {HeaderLines(V20, wrap, <<>>, curves) \o body :
        wrap \in {Txt("YES"), Txt("NO")},
        curves \in NormCurveLists,
        body \in SeqsUpTo(BodyLines, MaxNormBody)}

InitNorm ==
    \E f \in NormFiles, mb \in MnemBases :
        Start(f, NoDoc) /\ max_file_size = NoLimit /\ mnem_dict = mb

SpecNorm == InitNorm /\ [][Next]_vars

\* the most curve lines, and the most lines after the ~A line, of a file
\* whose document is converted
MaxLegacyCurves == 2

MaxLegacyBody == 2

LegacyCurveLines ==
    {HdrLine(DEPT, "M", Txt(""), Txt("DEPTH"), ""),
     HdrLine(GR, "", Txt("123"), Txt(""), ""),
     HdrLine(GR, "GAPI", Txt(""), Txt("gamma"), "")}

LegacyFiles ==
    {<<SecLine(FALSE, "V", SName("ERSION", -1), 1),
       HdrLine(Name("VERS"), "", V20, Txt(""), ""),
       SecLine(FALSE, "C", SName("URVE", -1), 1)>>
     \o curves \o <<SecLine(FALSE, "A", SName("SCII", -1), 1)>> \o body :
        curves \in SeqsUpTo(LegacyCurveLines, MaxLegacyCurves),
        body \in SeqsUpTo(BodyLines, MaxLegacyBody)}

InitLegacy ==
    \E f \in LegacyFiles :
        Start(f, NoDoc) /\ max_file_size = NoLimit /\ mnem_dict = <<>>

NextLegacy == ReadFile \/ ToDict \/ FromDict

SpecLegacy == InitLegacy /\ [][NextLegacy]_vars

\* the most depth steps of a wrapped file that follows the protocol
MaxSteps == 2

\* the ways to lay a sequence of tokens out over rows, in order
RECURSIVE Splits(_)
Splits(toks) ==
    IF toks = <<>> THEN {<<>>}
    ELSE UNION {{<<RowLine(SubSeq(toks, 1, n), " ")>> \o rest :
                    rest \in Splits(SubSeq(toks, n + 1, Len(toks)))} :
                n \in 1..Len(toks)}

\* the value tokens of step k for n curves; position bad holds a text that
\* is no number
StepValues(k, n, bad) ==
    [j \in 1..(n - 1) |-> IF j + 1 = bad THEN Bad ELSE Num(100 * k + j + 1)]

\* the rows of step k: the depth alone, then the values over some rows
StepRows(k, n) ==
    UNION {{<<RowLine(<<Num(100 * k + 1)>>, " ")>> \o rows :
               rows \in Splits(StepValues(k, n, bad))} : bad \in {0, 2, n}}

RECURSIVE StepsRows(_, _)
StepsRows(m, n) ==
    IF m = 0 THEN {<<>>}
    ELSE {before \o last : before \in StepsRows(m - 1, n),
                           last \in StepRows(m, n)}

WrappedCurveLists ==
    {<<DEPT, GR>>, <<DEPT, GR, GR>>, <<GR, GR, GR_2>>, <<DEPT, GR, GR_2, GAMMA>>}

WrappedFilesOf(curves) ==
    {HeaderLines(V20, Txt("YES"), nulls, curves) \o rows \o after :
        nulls \in {<<>>, <<Num(-100000)>>},
        rows \in UNION {StepsRows(m, Len(curves)) : m \in 1..MaxSteps},
        after \in {<<>>, <<CommentLine>>,
                   <<SecLine(FALSE, "O", SName("THER", -1), 1),
                     RowLine(<<Num(7)>>, " ")>>}}

WrappedFiles == UNION {WrappedFilesOf(curves) : curves \in WrappedCurveLists}

InitWrapped ==
    \E f \in WrappedFiles :
        Start(f, NoDoc) /\ max_file_size = NoLimit /\ mnem_dict = <<>>

SpecWrapped == InitWrapped /\ [][Next]_vars

\* the most lines after the first ~A line of a file of several sections
MaxSectionBody == 4

\* two rows, and the section lines ~A, ~A LOG, ~O, ~P and ~X
SectionBodyLines ==
    {RowLine(<<Num(21), Num(22)>>, " "), RowLine(<<Num(31), Bad, Num(33)>>, " "),
               SecLine(FALSE, "A", NoSName, 1),
               SecLine(FALSE, "A", SName(" LOG", -1), 2),
               SecLine(FALSE, "O", SName("THER", -1), 1),
               SecLine(FALSE, "P", NoSName, 1),
               SecLine(FALSE, "X", SName("TRA", -1), 1)}

SectionFiles ==
    {HeaderLines(vers, Txt("NO"), <<>>, curves) \o body :
        vers \in {V20, V30},
        curves \in {<<DEPT, GR>>},
        body \in SeqsUpTo(SectionBodyLines, MaxSectionBody)}

InitSections ==
    \E f \in SectionFiles :
        Start(f, NoDoc) /\ max_file_size = NoLimit /\ mnem_dict = <<>>

SpecSections == InitSections /\ [][Next]_vars

\* the most lines after the line that opens the data block
MaxOpenedBody == 3

\* how a data block is opened: '~A' or '~a' in column 0 or indented
Openers ==
    {SecLine(ind, ch, NoSName, 1) : ind \in BOOLEAN, ch \in {"A", "a"}}

\* two rows, an indented '~A', '~a' and '~1', which has no letter
OpenedBodyLines ==
    {RowLine(<<Num(21), Num(22)>>, " "), RowLine(<<Num(31)>>, " "),
               SecLine(TRUE, "A", NoSName, 1),
               SecLine(FALSE, "a", NoSName, 1),
               SecLine(FALSE, "1", NoSName, 1)}

\* the header of a file up to its last curve line
HeaderBefore(vers, wrap, nulls, curves) ==
    SubSeq(HeaderLines(vers, wrap, nulls, curves), 1,
           Len(HeaderLines(vers, wrap, nulls, curves)) - 1)

\* 2.0 files, not wrapped, whose data block each opener opens
OpenedFiles ==
    {HeaderBefore(V20, Txt("NO"), <<>>, <<DEPT, GR>>) \o <<opener>> \o body :
        opener \in Openers,
        body \in SeqsUpTo(OpenedBodyLines, MaxOpenedBody)}

InitOpened ==
    \E f \in OpenedFiles :
        Start(f, NoDoc) /\ max_file_size = NoLimit /\ mnem_dict = <<>>

SpecOpened == InitOpened /\ [][Next]_vars

\* the most lines after the first ~A line of a file with a string curve
MaxStringBody == 3

\* curve declarations [mnem, fmt]: GR holds strings ({S})
StringCurveLists ==
    {<<[mnem |-> DEPT, fmt |-> ""], [mnem |-> GR, fmt |-> "S"]>>,
     <<[mnem |-> DEPT, fmt |-> "F"], [mnem |-> GR, fmt |-> "S"],
       [mnem |-> GAMMA, fmt |-> ""]>>}

\* rows '21 x', '31' and '41,,43', and the section lines ~A, ~A LOG and ~O
StringBodyLines ==
    {RowLine(<<Num(21), Bad>>, " "), RowLine(<<Num(31)>>, " "),
               RowLine(<<Num(41), Txt(""), Num(43)>>, ","),
               SecLine(FALSE, "A", NoSName, 1),
               SecLine(FALSE, "A", SName(" LOG", -1), 2),
               SecLine(FALSE, "O", SName("THER", -1), 1)}

StringHeader(dlm, curves) ==
    <<SecLine(FALSE, "V", SName("ERSION", -1), 1),
      HdrLine(Name("VERS"), "", V30, Txt(""), ""),
      HdrLine(Name("WRAP"), "", Txt("NO"), Txt(""), ""),
      HdrLine(Name("DLM"), "", dlm, Txt(""), ""),
      SecLine(FALSE, "C", SName("URVE", -1), 1)>>
    \o [i \in 1..Len(curves) |->
          HdrLine(curves[i].mnem, "", Txt(""), Txt(""), curves[i].fmt)]
    \o <<SecLine(FALSE, "A", SName("SCII", -1), 1)>>

\* 3.0 files with a string curve, delimited by spaces or by commas
StringFiles ==
    {StringHeader(dlm, curves) \o body :
        dlm \in {Txt("SPACE"), Txt("COMMA")},
        curves \in StringCurveLists,
        body \in SeqsUpTo(StringBodyLines, MaxStringBody)}

InitStrings ==
    \E f \in StringFiles :
        Start(f, NoDoc) /\ max_file_size = NoLimit /\ mnem_dict = <<>>

SpecStrings == InitStrings /\ [][Next]_vars

InitWrite == \E d \in WriterDocs : Start(<<>>, d) /\ max_file_size = NoLimit /\ mnem_dict = <<>>

NextWrite == WriteFile \/ ReadBack

SpecWrite == InitWrite /\ [][NextWrite]_vars

\* ------------------------------------------------------- parser instances
\* A LASParser keeps its accumulation state in its own attributes;
\* self.las_file refers to a LASFile object, and parse returns that
\* reference.

\* contents handed to parse: headers of either dialect, data lines, an
\* empty content, a NULL entry float() rejects, sections ~X and ~x of no
\* known letter, and a line before any section line
ParserContents ==
    {<<>>,
     <<SecLine(FALSE, "C", SName("URVE", -1), 1),
       HdrLine(DEPT, "M", Txt(""), Txt(""), ""),
       HdrLine(GR, "", Txt(""), Txt(""), "")>>,
     <<SecLine(FALSE, "V", SName("ERSION", -1), 1),
       HdrLine(Name("WRAP"), "", Txt("YES"), Txt(""), ""),
       SecLine(FALSE, "W", SName("ELL", -1), 1),
       HdrLine(Name("NULL"), "", Num(-100000), Txt(""), "")>>,
     <<SecLine(FALSE, "C", SName("URVE", -1), 1),
       HdrLine(DEPT, "FT", Txt(""), Txt(""), ""),
       SecLine(FALSE, "A", NoSName, 1),
       RowLine(<<Num(21), Num(22)>>, " ")>>,
     <<SecLine(FALSE, "V", SName("ERSION", -1), 1),
       HdrLine(Name("VERS"), "", V30, Txt(""), ""),
       SecLine(FALSE, "C", SName("URVE", -1), 1),
       HdrLine(GR, "", Txt(""), Txt(""), ""),
       SecLine(FALSE, "A", NoSName, 1),
       RowLine(<<Num(10)>>, " ")>>,
     <<SecLine(FALSE, "W", SName("ELL", -1), 1),
       HdrLine(Name("NULL"), "", Txt("NONE"), Txt(""), ""),
       SecLine(FALSE, "C", SName("URVE", -1), 1),
       HdrLine(GR, "", Txt(""), Txt(""), ""),
       SecLine(FALSE, "A", NoSName, 1),
       RowLine(<<Num(10)>>, " "),
       SecLine(FALSE, "A", NoSName, 1)>>,
     <<SecLine(FALSE, "C", SName("URVE", -1), 1),
       HdrLine(DEPT, "M", Txt(""), Txt(""), ""),
       SecLine(FALSE, "X", SName("TRA", -1), 1),
       HdrLine(GR, "", Txt("5"), Txt(""), ""),
       RowLine(<<Num(21), Num(22)>>, " "),
       JunkLine,
       SecLine(FALSE, "A", NoSName, 1),
       RowLine(<<Num(10)>>, " ")>>,
     <<HdrLine(Name("VERS"), "", V30, Txt(""), ""),
       SecLine(FALSE, "x", NoSName, 1),
       HdrLine(Name("NULL"), "", Txt("NONE"), Txt(""), ""),
       CommentLine,
       SecLine(FALSE, "W", SName("ELL", -1), 1),
       HdrLine(Name("NULL"), "", Num(-100000), Txt(""), "")>>}

\* fault: the accumulation state kept in one place for all instances
SharedSlot(inst) == 1

\* self.<attribute> of an instance: each instance has its own attributes
\* (parser.py 90-95)
Slot(inst) == inst

\* fault: a reset that clears the fields but keeps the LASFile object
reset_keeping_document(self, ref) == [ParserReset EXCEPT !.las_file = self.las_file]

\* LASParser._reset: cleared fields and a new LASFile object, at ref
reset(self, ref) == [ParserReset EXCEPT !.las_file = ref]

\* LASParser(): the fields after __init__, with a LASFile object at ref
NewParser(ref) == [ParserReset EXCEPT !.las_file = ref]

\* an instance with its document in place of the reference to it
Deref(self, objects) == [self EXCEPT !.las_file = objects[self.las_file]]

Call(inst, content) ==
    [inst |-> inst, content |-> content, pc |-> "idle", i |-> 1, ret |-> 0,
     err |-> "none", overlapped |-> FALSE]

\* whether a parse call other than c is under way
Busy(c) == \E o \in 1..Len(calls) : o # c /\ calls[o].pc = "lines"

\* the effect of a step of call c that turned its instance into ps: the
\* document it refers to is updated in place; an exception ends the call
Stepped(c, ref, ps, done) ==
    /\ parsers' = [parsers EXCEPT ![Slot(calls[c].inst)] =
                      [ps EXCEPT !.las_file = ref, !.error = "none"]]
    /\ heap' = [heap EXCEPT ![ref] = ps.las_file]
    /\ calls' = [calls EXCEPT ![c] =
                    IF ps.error # "none"
                    THEN [@ EXCEPT !.pc = "raised", !.err = ps.error]
                    ELSE IF done THEN [@ EXCEPT !.pc = "done", !.ret = ref]
                    ELSE [@ EXCEPT !.i = @ + 1]]

\* the start of parse (parser.py 110-113): _reset, splitlines, _pre_scan
BeginParse(c) ==
    /\ calls[c].pc = "idle"
    /\ \A o \in 1..(c - 1) : calls[o].pc # "idle"
    /\ heap' = Append(heap, LASFile)
    /\ parsers' = [parsers EXCEPT ![Slot(calls[c].inst)] =
                      [reset(@, Len(heap) + 1) EXCEPT
                          !.data_line_count = pre_scan(calls[c].content)]]
    /\ calls' = [calls EXCEPT ![c].pc = "lines", ![c].overlapped = Busy(c)]
    /\ UNCHANGED iovars
    /\ UNCHANGED fsvars

\* one iteration of the loop of parse (parser.py 115-117)
ParseLineStep(c) ==
    /\ calls[c].pc = "lines"
    /\ calls[c].i <= Len(calls[c].content)
    /\ Stepped(c, parsers[Slot(calls[c].inst)].las_file,
               parse_line(Deref(parsers[Slot(calls[c].inst)], heap),
                          calls[c].content[calls[c].i], <<>>),
               FALSE)
    /\ UNCHANGED iovars
    /\ UNCHANGED fsvars

\* the end of parse (parser.py 119-124): the LAS 3.0 extraction, then
\* return self.las_file
EndParse(c) ==
    /\ calls[c].pc = "lines"
    /\ calls[c].i > Len(calls[c].content)
    /\ Stepped(c, parsers[Slot(calls[c].inst)].las_file,
               ParseEnd(Deref(parsers[Slot(calls[c].inst)], heap)), TRUE)
    /\ UNCHANGED iovars
    /\ UNCHANGED fsvars

\* two LASParser() instances and two parse calls, the second on either
InitParser ==
    /\ pc = "start"
    /\ file = <<>>
    /\ din = NoDoc
    /\ doc = NoDoc
    /\ err = "none"
    /\ warnings = <<>>
    /\ run = NoRun
    /\ max_file_size = NoLimit
    /\ mnem_dict = <<>>
    /\ steps = <<>>
    /\ heap = <<LASFile, LASFile>>
    /\ parsers = <<NewParser(1), NewParser(2)>>
    /\ \E c1 \in ParserContents, c2 \in ParserContents, inst \in {1, 2} :
          calls = <<Call(1, c1), Call(inst, c2)>>

NextParser ==
    \E c \in {1, 2} : BeginParse(c) \/ ParseLineStep(c) \/ EndParse(c)

SpecParser == InitParser /\ [][NextParser]_vars

\* ---------------------------------------------------------- sized reads

\* the largest max_file_size of the sized reads
MaxLimit == 3

SizedFiles == HeaderFiles \cup ParserContents

Limits == {NoLimit} \cup {Limit(n) : n \in 0..MaxLimit}

InitSized ==
    \E f \in SizedFiles, l \in Limits : Start(f, NoDoc) /\ max_file_size = l /\ mnem_dict = <<>>

NextSized == StatFile \/ DecodeFile \/ ParseFile

SpecSized == InitSized /\ [][NextSized]_vars

\* ------------------------------------------------- vocabulary of the claims
\* What a file says, read off its lines without the reader's operators.

IndexOfFirst(f, P(_)) ==
    IF \E i \in 1..Len(f) : P(f[i])
    THEN CHOOSE i \in 1..Len(f) : P(f[i]) /\ \A j \in 1..(i - 1) : ~P(f[j])
    ELSE Len(f) + 1

FirstSec(f, ch) == IndexOfFirst(f, LAMBDA l : l.k = "sec" /\ l.ch = ch)

\* the mnemonics the ~C section declares, in order
DeclaredNames(f) ==
    LET c == FirstSec(f, "C")
        n == Cardinality({i \in (c + 1)..Len(f) :
                            /\ f[i].k = "hdr"
                            /\ \A j \in (c + 1)..i : f[j].k # "sec"})
    IN  [i \in 1..n |-> f[c + i].mnem]

\* the text of the Well section's NULL entry, <<>> if there is none
DeclaredNullTexts(f) ==
    LET idx == SelectSeq([i \in 1..Len(f) |-> i],
                         LAMBDA i : f[i].k = "hdr" /\ f[i].mnem = Name("NULL"))
    IN  [j \in 1..Len(idx) |-> f[idx[j]].value]

\* the null sentinel of a file: its NULL entry if numeric, else -999.25
NullSentinel(f) ==
    LET t == DeclaredNullTexts(f)
    IN  IF t # <<>> /\ t[Len(t)].num THEN t[Len(t)].v ELSE DefaultNullV

DeclaredWrap(f) ==
    LET i == IndexOfFirst(f, LAMBDA l : l.k = "hdr" /\ l.mnem = Name("WRAP"))
    IN  f[i].value.s

\* the data rows of the data section: the rows after the first ~A line and
\* before the next section line that is not an ~A line
DataRowIdx(f) ==
    LET a == FirstSec(f, "A")
    IN  SelectSeq([i \in 1..Len(f) |-> i],
                  LAMBDA i : /\ i > a
                             /\ f[i].k = "row"
                             /\ \A j \in a..i : f[j].k = "sec" => f[j].ch = "A")

DataRows(f) == [r \in 1..Len(DataRowIdx(f)) |-> f[DataRowIdx(f)[r]]]

\* the number of non-comment, non-blank lines inside ~A sections
DataLineCount(f) ==
    Cardinality({i \in 1..Len(f) :
        /\ f[i].k = "row"
        /\ \E j \in 1..(i - 1) :
              /\ f[j].k = "sec" /\ f[j].ch = "A"
              /\ \A m \in (j + 1)..(i - 1) : f[m].k # "sec"})

\* what position i of a row holds: the number of token i, else the sentinel
Cell(row, i, null_v) ==
    IF i <= Len(row.toks) /\ row.toks[i].num THEN row.toks[i].v ELSE null_v

\* the number of the occurrence of names[i] that position i is
Occurrence(names, i) == Cardinality({j \in 1..i : names[j] = names[i]})

NoRepeat(s) == \A i, j \in 1..Len(s) : s[i] = s[j] => i = j

Longest(lists) ==
    IF lists = <<>> THEN 0
    ELSE CHOOSE n \in {Len(lists[i]) : i \in 1..Len(lists)} :
            \A i \in 1..Len(lists) : Len(lists[i]) <= n

\* the document a writer input stands for
DocOf(d) == IF d.kind = "dict" THEN d.data ELSE d.las

InputWrap(d) ==
    IF d.kind = "dict" THEN d.data.version.WRAP.s ELSE d.las.version.wrap.s

\* whether the Well section of a writer input has a NULL entry float() rejects
BadNullEntry(d) ==
    /\ DictHas(DocOf(d).well, Name("NULL"))
    /\ ~DictGet(DocOf(d).well, Name("NULL")).num

RECURSIVE SumLen(_, _)
SumLen(sections, i) ==
    IF i > Len(sections) THEN 0
    ELSE Len(sections[i].data[1].val) + SumLen(sections, i + 1)

\* the depth steps of a writer input: the rows of its logs, or of all its
\* data sections when it has some
DepthSteps(d) ==
    IF d.kind = "object" /\ d.las.data_sections # <<>>
    THEN SumLen(d.las.data_sections, 1)
    ELSE Len(DocOf(d).logs[1].val)

RowsOf(f) == SelectSeq(f, LAMBDA l : l.k = "row")

WrapEntries(f) == SelectSeq(f, LAMBDA l : l.k = "hdr" /\ l.mnem = Name("WRAP"))

\* ------------------------------------------------------------------ claims

\* C1: after reading a 1.2/2.0 input (wrapped or not, short rows,
\* unparseable tokens, an incomplete final wrapped step) every two arrays of
\* logs have the same length.
C1_UniformLengths ==
    pc = "read" =>
        \A i, j \in 1..Len(doc.logs) : Len(doc.logs[i].val) = Len(doc.logs[j].val)

\* a wrapped read whose last step is incomplete, with lists of unequal
\* length before the padding
C1_Witness ==
    /\ pc = "read"
    /\ run.algorithm = "wrapped"
    /\ ~run.depth_line
    /\ Len(doc.logs) >= 2
    /\ \E i \in 1..Len(run.read_lists) :
          Len(run.read_lists[i]) < Longest(run.read_lists)

\* C2: after duplicate-mnemonic repair the curve-name ordering holds no
\* repeated name, and logs has exactly one array per declared curve.
C2_NoRepeatedName ==
    pc = "read" =>
        /\ NoRepeat(doc.curves_order)
        /\ Len(doc.logs) = Len(DeclaredNames(file))

\* C3: the repair keeps first occurrences, renames the k-th occurrence of N
\* to N_k in place with one diagnostic per rename, and in a non-wrapped
\* read column i of every data row is the value of the curve at position i.
C3_RenameRule ==
    pc = "read" =>
        LET names == DeclaredNames(file)
            renamed == SelectSeq([i \in 1..Len(names) |-> i],
                                 LAMBDA i : Occurrence(names, i) >= 2)
        IN  /\ Len(doc.curves_order) = Len(names)
            /\ \A i \in 1..Len(names) :
                  doc.curves_order[i] =
                      IF Occurrence(names, i) = 1 THEN names[i]
                      ELSE Suffixed(names[i], Occurrence(names, i))
            /\ SelectSeq(warnings, LAMBDA w : w.kind = "duplicate")
                  = [j \in 1..Len(renamed) |->
                        DupWarning(names[renamed[j]],
                                   Suffixed(names[renamed[j]],
                                            Occurrence(names, renamed[j])))]

ColumnsPositional ==
    \A r \in 1..Len(DataRows(file)) :
        \A i \in 1..Len(doc.curves_order) :
            DictGet(doc.logs, doc.curves_order[i])[r]
                = Cell(DataRows(file)[r], i, NullSentinel(file))

C3_RenamedColumns ==
    /\ C3_RenameRule
    /\ pc = "read" /\ run.algorithm = "normal" => ColumnsPositional

\* C4: with WRAP=YES declared and a first data row of at least as many
\* tokens as there are curves, the non-wrapped algorithm runs: every array
\* is as long as the number of non-comment, non-blank data lines, and data
\* row r supplies index r of every array (the array of a name holds, at r,
\* what row r has at a position declared under that name).  With a first
\* data row of fewer tokens the wrapped algorithm runs.
C4_WrapMismatch ==
    pc = "read" /\ DeclaredWrap(file) = "YES" /\ DataRows(file) # <<>> =>
        LET rows == DataRows(file)
            curve_count == Len(DeclaredNames(file))
        IN  IF Len(rows[1].toks) >= curve_count
            THEN /\ run.algorithm = "normal"
                 /\ \A k \in 1..Len(doc.logs) :
                       /\ Len(doc.logs[k].val) = DataLineCount(file)
                       /\ \A r \in 1..Len(rows) :
                             \E i \in 1..curve_count :
                                /\ doc.curves_order[i] = doc.logs[k].key
                                /\ doc.logs[k].val[r]
                                      = Cell(rows[r], i, NullSentinel(file))
            ELSE run.algorithm = "wrapped"

\* a WRAP=YES file of two full rows read by the non-wrapped algorithm
C4_Witness ==
    /\ pc = "read"
    /\ DeclaredWrap(file) = "YES"
    /\ run.algorithm = "normal"
    /\ Len(doc.curves_order) >= 2
    /\ Len(DataRows(file)) >= 2
    /\ Len(doc.logs[1].val) = Len(DataRows(file))

\* C5: in a non-wrapped read, for every data row and every curve position
\* i, the curve's value at that row is the number of token i if the row has
\* one that parses, else the declared null sentinel; tokens beyond the
\* curve count are ignored.
C5_NullFill ==
    pc = "read" /\ run.algorithm = "normal" =>
        \A r \in 1..Len(DataRows(file)) :
            \A i \in 1..Len(doc.curves_order) :
                LET row == DataRows(file)[r]
                    value == DictGet(doc.logs, doc.curves_order[i])[r]
                IN  IF i <= Len(row.toks) /\ row.toks[i].num
                    THEN value = row.toks[i].v
                    ELSE value = NullSentinel(file)

\* C6: in a wrapped read that ends inside a depth step, every curve
\* sequence shorter than the longest one is extended with the null sentinel
\* up to that length, one diagnostic is raised per padded curve, and the
\* values read keep their indices; the arrays stored are these sequences.
C6_WrappedPadding ==
    pc = "read" /\ run.algorithm = "wrapped" /\ ~run.depth_line =>
        LET lists == run.read_lists
            longest == Longest(lists)
            pads == SelectSeq(warnings, LAMBDA w : w.kind = "pad")
        IN  /\ \A i \in 1..Len(lists) :
                  /\ Len(run.data_lists[i]) = longest
                  /\ \A n \in 1..longest :
                        run.data_lists[i][n] =
                            IF n <= Len(lists[i]) THEN lists[i][n]
                            ELSE NullSentinel(file)
                  /\ Cardinality({j \in 1..Len(pads) : pads[j].curve = i})
                        = IF Len(lists[i]) < longest THEN 1 ELSE 0
            /\ \A k \in 1..Len(doc.logs) :
                  \E i \in 1..Len(lists) :
                     /\ doc.curves_order[i] = doc.logs[k].key
                     /\ doc.logs[k].val = run.data_lists[i]

\* a wrapped read of three curves that ends after the depth and one value
C6_Witness ==
    /\ pc = "read"
    /\ run.algorithm = "wrapped"
    /\ ~run.depth_line
    /\ Len(run.read_lists) = 3
    /\ Len(run.read_lists[2]) = Longest(run.read_lists)
    /\ Len(run.read_lists[3]) < Longest(run.read_lists)
    /\ \E w \in Range(warnings) : w.kind = "pad" /\ w.curve = 3

\* C7: round trip: read_las_file(write_las_file(D)) has D's curve names in
\* D's order and, per curve, D's values rounded to 4 decimals, whatever
\* D's wrap flag and delimiter kind.
C7_RoundTrip ==
    pc = "reread" =>
        LET D == DocOf(din)
        IN  /\ doc.curves_order = D.curves_order
            /\ \A i \in 1..Len(D.curves_order) :
                  LET name == D.curves_order[i]
                  IN  /\ DictHas(doc.logs, name)
                      /\ DictGet(doc.logs, name)
                            = [r \in 1..Len(DictGet(D.logs, name)) |->
                                  Round4(DictGet(D.logs, name)[r])]

\* C8: whatever the wrap flag of the input document, the output declares
\* WRAP as NO once, holds one data row per depth step with one field per
\* curve, and the document read back from it has wrap = NO.
C8_AlwaysWrapNo ==
    /\ pc \in {"written", "reread"} =>
          /\ Len(WrapEntries(file)) = 1
          /\ WrapEntries(file)[1].value.s = "NO"
          /\ Len(RowsOf(file)) = DepthSteps(din)
          /\ \A r \in 1..Len(RowsOf(file)) :
                Len(RowsOf(file)[r].toks) = Len(DocOf(din).curves_order)
    /\ pc = "reread" => doc.version.WRAP.s = "NO"

\* a WRAP=YES document of two curves and two depth steps, written and read
\* back
C8_Witness ==
    /\ pc = "reread"
    /\ InputWrap(din) = "YES"
    /\ Len(DocOf(din).curves_order) = 2
    /\ DepthSteps(din) = 2
    /\ Len(RowsOf(file)) = 2

\* C9: writing a document whose NULL entry is present but not numeric
\* completes and writes every data row.
C9_WriteSurvivesBadNull ==
    pc # "start" /\ din # NoDoc /\ BadNullEntry(din) =>
        /\ pc # "write_failed"
        /\ Len(RowsOf(file)) = DepthSteps(din)

\* C10: reading a file whose NULL entry is present but not numeric, or
\* empty, completes (non-wrapped, wrapped and LAS 3.0 alike).
C10_ReadSurvivesBadNull ==
    pc # "start" /\ DeclaredNullTexts(file) # <<>>
                /\ ~DeclaredNullTexts(file)[1].num => pc = "read"

\* what a parse call on a fresh parser does with the content of call c
Alone(c) == parse(calls[c].content, <<>>)

Finished(c) == calls[c].pc \in {"done", "raised"}

\* call c ended as it would have on a fresh parser, and the document it
\* returned is, now, the document a fresh parser returns
AsAlone(c, alone) ==
    IF alone.error = "none"
    THEN calls[c].pc = "done" /\ heap[calls[c].ret] = alone.las_file
    ELSE calls[c].pc = "raised" /\ calls[c].err = alone.error

Uncorrupted(c) == Finished(c) => AsAlone(c, Alone(c))

\* C11: when parse(c2) is called on a parser after parse(c1) has ended on
\* it, the second call returns what a fresh parser returns for c2 (nothing
\* of c1 in the document or the data-line count), in another object than
\* the first, and the document returned for c1 stays as it was.
C11_SequentialReuse ==
    Len(calls) = 2 /\ calls[1].inst = calls[2].inst /\ ~calls[2].overlapped =>
        /\ Uncorrupted(1)
        /\ Uncorrupted(2)
        /\ Finished(2) =>
              parsers[calls[2].inst].data_line_count = pre_scan(calls[2].content)
        /\ calls[1].pc = "done" /\ calls[2].pc = "done" =>
              calls[1].ret # calls[2].ret

\* two calls in a row on one instance, the first with curves and a data
\* line, the second with other content, both returned
C11_Witness ==
    /\ Len(calls) = 2
    /\ calls[1].inst = calls[2].inst
    /\ ~calls[2].overlapped
    /\ calls[1].pc = "done"
    /\ calls[2].pc = "done"
    /\ heap[calls[1].ret].curves # <<>>
    /\ pre_scan(calls[1].content) > 0
    /\ heap[calls[2].ret] # heap[calls[1].ret]

\* C12 as stated: two parse calls on one instance whose steps interleave
\* each return the document they would return alone.
C12_InterleavedOnOneInstance ==
    Len(calls) = 2 => Uncorrupted(1) /\ Uncorrupted(2)

\* C12 amended: two parse calls whose steps interleave each return the
\* document they would return alone when they run on two instances.
C12_InterleavedOnTwoInstances ==
    Len(calls) = 2 /\ calls[1].inst # calls[2].inst =>
        Uncorrupted(1) /\ Uncorrupted(2)

\* two calls on two instances, the second begun while the first was under
\* way, both returned with documents that have curves
C12_Witness ==
    /\ Len(calls) = 2
    /\ calls[1].inst # calls[2].inst
    /\ calls[2].overlapped
    /\ calls[1].pc = "done"
    /\ calls[2].pc = "done"
    /\ heap[calls[1].ret].curves # <<>>
    /\ heap[calls[2].ret].curves # <<>>
    /\ heap[calls[1].ret] # heap[calls[2].ret]

\* the lines of a file that match neither header form
Unmatched(f) == SelectSeq(f, LAMBDA l : l.k = "junk")

Matched(f) == SelectSeq(f, LAMBDA l : l.k # "junk")

\* C13: for every sequence of lines in a Version, Well, Curve or Parameter
\* section the parse ends with a document, the document is the one the
\* file gives without its unmatched lines, and a malformed extension tag
\* does not abort the parse.
C13_HeaderNeverRaises ==
    pc # "start" =>
        /\ pc = "read"
        /\ doc = read_las_file_as_object(Matched(file), <<>>).las

LimitExceeded ==
    max_file_size.given /\ st_size(file) > max_file_size.bytes

\* what the read does after the size guard
AfterGuard == SelectSeq(steps, LAMBDA x : x # "stat")

\* C14: a file larger than the given limit fails with the size error
\* after the stat alone, with no detection, decoding or parse and no
\* document; a file within the limit, or read without a limit, ends as
\* read_las_file_as_object ends on its content.
C14_SizeGuard ==
    /\ LimitExceeded /\ pc # "start" =>
          /\ pc = "failed"
          /\ err = SizeError
          /\ steps = <<"stat">>
          /\ doc = NoDoc
    /\ ~LimitExceeded /\ pc \in {"read", "failed"} =>
          /\ err = read_las_file_as_object(file, <<>>).error
          /\ doc = read_las_file_as_object(file, <<>>).las
          /\ warnings = read_las_file_as_object(file, <<>>).warns
          /\ AfterGuard \in {<<"read_text", "parse">>,
                              <<"detect_encoding", "read_text", "parse">>}

C14_Witness ==
    /\ LimitExceeded
    /\ file # <<>>
    /\ pc = "failed"
    /\ steps = <<"stat">>

\* the text of the VERS entry of a file
DeclaredVers(f) ==
    f[IndexOfFirst(f, LAMBDA l : l.k = "hdr" /\ l.mnem = Name("VERS"))].value

\* the logs hold data of the file: there is an array, and the first array
\* starts with the first number of a data row (of the first row of the
\* first ~A block, or of a later block for a version the parser reads
\* block by block)
LogsPopulated(f, logs) ==
    DataRows(f) # <<>> =>
        /\ logs # <<>>
        /\ logs[1].val # <<>>
        /\ \E r \in 1..Len(RowsOf(f)) :
              logs[1].val[1] = Cell(RowsOf(f)[r], 1, NullSentinel(f))

\* C15: a read, by read_las_file or by read_las_file_as_object, of a file
\* whose version is a number above 3.0 warns that the version is not
\* officially supported and returns a document whose logs hold the data;
\* a version that is no number brings neither the warning nor an error.
C15_UnsupportedVersion ==
    pc # "start" =>
        /\ DeclaredVers(file).num /\ DeclaredVers(file).v > 300000 =>
              /\ pc \in {"read", "read_dict"}
              /\ VersionWarning \in Range(warnings)
              /\ LogsPopulated(file, doc.logs)
        /\ ~DeclaredVers(file).num =>
              /\ pc \in {"read", "read_dict"}
              /\ VersionWarning \notin Range(warnings)

C15_Witness ==
    /\ pc = "read_dict"
    /\ DeclaredVers(file) = V40
    /\ DataRows(file) # <<>>
    /\ VersionWarning \in Range(warnings)

\* whether the elements of s appear in t in the order of s
RECURSIVE InOrderOf(_, _)
InOrderOf(s, t) ==
    IF s = <<>> THEN TRUE
    ELSE IF t = <<>> THEN FALSE
    ELSE IF Head(s) = Head(t) THEN InOrderOf(Tail(s), Tail(t))
    ELSE InOrderOf(s, Tail(t))

\* the keys of logs are among the curve names and in their order
C16_KeysInOrder ==
    pc = "read" => InOrderOf(DictKeys(doc.logs), doc.curves_order)

\* C16: after a read the keys of logs are curve names of curves_order, in
\* the order of curves_order, and for a 1.2/2.0 file with at least one
\* curve the keys of logs are curves_order itself.
C16_LogsFollowCurvesOrder ==
    /\ C16_KeysInOrder
    /\ pc = "read" /\ doc.curves_order # <<>> =>
          DictKeys(doc.logs) = doc.curves_order

\* the name a declared name has after normalization by the dictionary mb:
\* the value of the last entry whose key is the name but for case
NormalizedName(mb, raw) ==
    IF \E i \in 1..Len(mb) : UpperName(mb[i].key) = raw
    THEN mb[CHOOSE i \in 1..Len(mb) :
                /\ UpperName(mb[i].key) = raw
                /\ \A j \in (i + 1)..Len(mb) : UpperName(mb[j].key) # raw].val
    ELSE raw

RawName(f, i) == UpperName(DeclaredNames(f)[i])

PreRename(f, mb, i) == NormalizedName(mb, RawName(f, i))

\* C17: after reading a 1.2/2.0 file the mnemonics of the curve records are
\* curves_order position by position, and a record renamed as a duplicate
\* has as original_mnemonic the name it had before the renaming, or, if
\* normalization had changed its name, the name the file declares.
C17_CurvesFollowOrder ==
    pc = "read" =>
        /\ Len(doc.curves) = Len(DeclaredNames(file))
        /\ [i \in 1..Len(doc.curves) |-> doc.curves[i].mnemonic] = doc.curves_order
        /\ \A i \in 1..Len(doc.curves) :
              doc.curves[i].mnemonic # PreRename(file, mnem_dict, i) =>
                 doc.curves[i].original_mnemonic =
                    IF RawName(file, i) # PreRename(file, mnem_dict, i)
                    THEN RawName(file, i)
                    ELSE PreRename(file, mnem_dict, i)

\* a record that normalization renamed is renamed again as a duplicate
C17_Witness ==
    /\ pc = "read"
    /\ \E i \in 1..Len(doc.curves) :
          /\ doc.curves[i].mnemonic # PreRename(file, mnem_dict, i)
          /\ RawName(file, i) # PreRename(file, mnem_dict, i)
          /\ doc.curves[i].original_mnemonic = RawName(file, i)

\* C18: the mapping to_dict returns has an entry 'curves', and the
\* mnemonics of that entry are, in order, its entry 'curves_order'.
C18_DictHasCurves ==
    pc = "as_dict" =>
        /\ "curves" \in DOMAIN din.data
        /\ [i \in 1..Len(din.data.curves) |-> din.data.curves[i].mnemonic]
              = din.data.curves_order

\* C19: the document from_dict makes of to_dict's mapping has as many
\* curve records as the original and, record by record, the same unit,
\* API code and description.
C19_MetadataRestored ==
    pc = "restored" =>
        /\ Len(din.las.curves) = Len(doc.curves)
        /\ \A i \in 1..Len(doc.curves) :
              /\ din.las.curves[i].unit = doc.curves[i].unit
              /\ din.las.curves[i].api_code = doc.curves[i].api_code
              /\ din.las.curves[i].description = doc.curves[i].description

\* whether a section line other than ~A follows the first ~A line
SectionEndsData(f) ==
    \E i \in (FirstSec(f, "A") + 1)..Len(f) : f[i].k = "sec" /\ f[i].ch # "A"

\* C20: when a section line other than ~A follows the ~A line of a 1.2/2.0
\* file read one row per depth step, every array of logs has as many
\* values as there are data rows before that section line, so that no
\* later line, of a later ~A block either, adds to logs.
C20_SectionEndsData ==
    pc = "read" /\ run.algorithm = "normal" /\ SectionEndsData(file) =>
        \A n \in 1..Len(doc.logs) :
            Len(doc.logs[n].val) = Len(DataRows(file))

\* the tokens of the data rows of a file, in order
RECURSIVE FlatTokens(_, _)
FlatTokens(rows, i) ==
    IF i > Len(rows) THEN <<>> ELSE rows[i].toks \o FlatTokens(rows, i + 1)

\* the number token j of step k stands for, in a file of n curves whose
\* data rows follow the wrapped protocol
StepValue(f, n, k, j) ==
    LET t == FlatTokens(DataRows(f), 1)[(k - 1) * n + j]
    IN  IF t.num THEN t.v ELSE NullSentinel(f)

\* the depth rows of such a file
DepthRows(f) == Len(FlatTokens(DataRows(f), 1)) \div Len(DeclaredNames(f))

\* C21: a wrapped file that follows the protocol is read in as many steps
\* as it has depth rows, and value j of step k is at index k of the array
\* of curve j, however the values lie over the rows.
C21_WrappedProtocol ==
    pc # "start" =>
        /\ pc = "read"
        /\ run.algorithm = "wrapped"
        /\ run.depths = DepthRows(file)
        /\ \A j \in 1..Len(DeclaredNames(file)) :
              /\ DictHas(doc.logs, doc.curves_order[j])
              /\ Len(DictGet(doc.logs, doc.curves_order[j])) = DepthRows(file)
              /\ \A k \in 1..DepthRows(file) :
                    DictGet(doc.logs, doc.curves_order[j])[k]
                       = StepValue(file, Len(DeclaredNames(file)), k, j)

\* the ~A lines of a file, by index
ABlocks(f) ==
    SelectSeq([i \in 1..Len(f) |-> i],
              LAMBDA i : f[i].k = "sec" /\ ~f[i].ind /\ f[i].ch \in {"A", "a"})

\* the data rows of the block the ~A line at index a opens
BlockRowIdx(f, a) ==
    SelectSeq([i \in 1..Len(f) |-> i],
              LAMBDA i : /\ i > a
                         /\ f[i].k = "row"
                         /\ \A m \in (a + 1)..i : f[m].k # "sec")

BlockRows(f, a) == [r \in 1..Len(BlockRowIdx(f, a)) |-> f[BlockRowIdx(f, a)[r]]]

\* column j of rows, as numbers
ColumnOf(rows, j, null_v) == [r \in 1..Len(rows) |-> Cell(rows[r], j, null_v)]

Is30(f) == DeclaredVers(f).s = "3.0"

\* C22: parse of a 3.0 file makes one data-section record for each ~A
\* block, in file order, and the arrays of the record of a block hold the
\* rows of that block and no others, whether the blocks are adjacent or
\* other sections lie between them.
C22_SectionPerBlock ==
    pc = "read" /\ Is30(file) =>
        /\ Len(doc.data_sections) = Len(ABlocks(file))
        /\ \A b \in 1..Len(ABlocks(file)) :
              \A j \in 1..Len(doc.curves) :
                 DictGet(doc.data_sections[b].data, doc.curves[j].mnemonic)
                    = ColumnOf(BlockRows(file, ABlocks(file)[b]), j,
                               NullSentinel(file))

\* a section-start line: '~' in column 0 and then a letter
IsSectionStart(line) == line.k = "sec" /\ ~line.ind /\ line.ch \in Letters

\* call c takes a step of the loop over the lines
LineStep(c) ==
    /\ calls[c].pc = "lines"
    /\ calls[c].i <= Len(calls[c].content)
    /\ calls'[c] # calls[c]

\* a line that is no section start leaves the current section of the
\* instance as it is and, when the current section has none of the letters
\* V, W, C, P, O, A, leaves the instance and every document as they are
ContentLineFrame(c) ==
    ~IsSectionStart(calls[c].content[calls[c].i]) =>
        /\ parsers'[calls[c].inst].current_section
              = parsers[calls[c].inst].current_section
        /\ parsers[calls[c].inst].current_section
              \notin {"V", "W", "C", "P", "O", "A"} =>
                 /\ parsers'[calls[c].inst] = parsers[calls[c].inst]
                 /\ heap' = heap

\* C23: the current section changes only on section-start lines, and a
\* content line in a section whose letter is none of V, W, C, P, O, A
\* changes no field of the document and none of the collected lines.
C23_UnknownSectionFrame ==
    [][\A c \in 1..Len(calls) : LineStep(c) => ContentLineFrame(c)]_vars

\* a call is past a matched line and a data row inside a section ~X that
\* follows a ~C section with a curve
C23_Witness ==
    \E c \in 1..Len(calls) :
        /\ calls[c].pc = "lines"
        /\ calls[c].i > 5
        /\ calls[c].content[3].k = "sec"
        /\ calls[c].content[3].ch = "X"
        /\ calls[c].content[5].k = "row"
        /\ parsers[calls[c].inst].current_section = "X"
        /\ heap[parsers[calls[c].inst].las_file].curves # <<>>

\* C24: in a document whose version does not start with '3' (here 2.0, the
\* version of a file that declares none) no curve has a data format: a
\* brace tag such as {F} in a curve description is not extracted.
C24_ExtractionOnlyFor30 ==
    pc = "read" /\ doc.version.vers = V20 =>
        \A i \in 1..Len(doc.curves) : doc.curves[i].data_format = ""

\* C25: after reading a file whose version does not start with '3', with
\* one ~A block or several, the document has no data-section record and
\* no string data.
C25_SectionsOnlyFor30 ==
    pc = "read" /\ ~Is30(file) =>
        /\ doc.data_sections = <<>>
        /\ doc.string_data = <<>>

\* the line that opens the data block of a file of OpenedFiles
OpenerAt(f) == Len(HeaderBefore(V20, Txt("NO"), <<>>, <<DEPT, GR>>)) + 1

\* the lines after the opener are data rows only
RowsOnlyAfterOpener(f) == \A i \in (OpenerAt(f) + 1)..Len(f) : f[i].k = "row"

RowsAfterOpener(f) == SubSeq(f, OpenerAt(f) + 1, Len(f))

\* C26: a data block opened by '~a' or by an indented '~A' is counted by
\* the pre-scan and read into logs exactly like one opened by '~A' in
\* column 0: the read succeeds and each curve's array holds its column of
\* the rows of the block.
C26_OpenersAlike ==
    pc # "start" /\ RowsOnlyAfterOpener(file) =>
        /\ pc = "read"
        /\ \A j \in 1..Len(doc.curves_order) :
              /\ DictHas(doc.logs, doc.curves_order[j])
              /\ DictGet(doc.logs, doc.curves_order[j])
                   = ColumnOf(RowsAfterOpener(file), j, NullSentinel(file))

\* the name a record of the block the line l opens may have: the text
\* after the letter, or Section_<index> when there is none
NamesBlock(name, l) ==
    IF strip(l.name) # NoSName THEN name = strip(l.name)
    ELSE name.txt = "Section_" /\ name.idx >= 0

\* C27: the name of every Data-Section record is the text that follows
\* the section letter on a ~A line of the file (or Section_<index> when
\* that line has none), whatever sections come after the block.
C27_NameOfOpeningLine ==
    pc = "read" /\ Is30(file) =>
        \A b \in 1..Len(doc.data_sections) :
            \E a \in 1..Len(ABlocks(file)) :
                NamesBlock(doc.data_sections[b].name, file[ABlocks(file)[a]])

\* C29: after a wrapped read every curve's array has one element for each
\* depth row consumed, and the fill counter lies in 0..curve_count-1 and
\* is 0 when a depth row is awaited.
C29_OneElementPerDepthRow ==
    pc = "read" /\ run.algorithm = "wrapped" =>
        /\ \A i \in 1..Len(run.data_lists) : Len(run.data_lists[i]) = run.depths
        /\ \A j \in 1..Len(doc.curves_order) :
              Len(DictGet(doc.logs, doc.curves_order[j])) = run.depths
        /\ run.counter \in 0..(Len(doc.curves_order) - 1)
        /\ run.depth_line => run.counter = 0

\* the delimiter a file declares
DeclaredDlm(f) ==
    LET t == f[IndexOfFirst(f, LAMBDA l : l.k = "hdr" /\ l.mnem = Name("DLM"))].value
    IN  IF t.s = "COMMA" THEN "," ELSE " "

\* field j of a row that uses the file's delimiter: its text, or the text
\* of the null sentinel when the row is short
FieldText(row, j, null_v) ==
    IF j <= Len(row.toks) THEN row.toks[j] ELSE Num(null_v)

\* record b of the document keeps the shapes of block b of the file
ShapesAligned(f, d, b) ==
    LET rows == BlockRows(f, ABlocks(f)[b])
        ds == d.data_sections[b]
    IN  \A j \in 1..Len(d.curves) :
            LET c == d.curves[j]
            IN  /\ DictHas(ds.data, c.mnemonic)
                /\ Len(DictGet(ds.data, c.mnemonic)) = Len(rows)
                /\ c.data_format = "S" =>
                      /\ DictGet(ds.data, c.mnemonic) = Repeat(0, Len(rows))
                      /\ DictHas(d.string_data, c.mnemonic)
                      /\ ~DictHas(d.logs, c.mnemonic)
                      /\ b = Len(d.data_sections) =>
                            /\ Len(DictGet(d.string_data, c.mnemonic)) = Len(rows)
                            /\ \A r \in 1..Len(rows) :
                                  rows[r].dlm = DeclaredDlm(f) =>
                                     DictGet(d.string_data, c.mnemonic)[r]
                                        = FieldText(rows[r], j, NullSentinel(f))

\* C28: in every Data-Section record of a 3.0 document each declared curve
\* has an array as long as the data rows of that block; a curve of format
\* S has its values in string_data, a zero-filled placeholder of that
\* length in the record, and no entry in logs.
C28_ShapesAligned ==
    pc = "read" /\ Is30(file) =>
        \A b \in 1..Len(doc.data_sections) :
            b <= Len(ABlocks(file)) /\ ShapesAligned(file, doc, b)

\* C30: a read that is not wrapped writes no more rows than the pre-scan
\* counted, so no write falls outside the arrays and the read does not
\* fail with an index error.
C30_RowsWithinPreScan ==
    /\ err # "IndexError"
    /\ pc = "read" /\ run.algorithm = "normal" =>
          run.rows <= run.data_line_count

====
